---- MODULE Spec2Model ----
(***************************************************************************)
(* HL7-over-MLLP ingestion service (srv/services/hl7Service.js):           *)
(* per-connection frame buffer, message parser, router, the Patient-Admit  *)
(* and Order handlers with their callback-based repository operations,     *)
(* and the acknowledgment written for every frame.                         *)
(*                                                                         *)
(* A JavaScript string is a sequence of one-character strings; the three   *)
(* control bytes and the newline are the tokens VT, FS, CR and LF.         *)
(***************************************************************************)
EXTENDS Integers, Sequences, FiniteSets, TLC

VARIABLES
    catalog,    \* what the peers of this run may transmit, on which
                \* connections, and how the network may cut it
    conn,       \* conn[c]: "idle" (not yet accepted), "open" or "closed"
    wire,       \* wire[c]: TCP segments sent by the peer and not yet read
    buffer,     \* buffer[c]: the closure variable `buffer` of the socket
    received,   \* received[c]: every byte the 'data' handler has been given
    log,        \* log[c]: what the handler logs and writes, in order: data
                \* received, complete message taken up, ACK sent
    pending,    \* repository operations issued and not yet completed
    patients,   \* table patients, keyed by ssn
    visits,     \* table patient_visits
    failed,     \* frames one of whose repository operations returned an error
    sent        \* transmissions the peers have made (frames and stray bytes)

vars == <<catalog, conn, wire, buffer, received, log, pending, patients, visits,
          failed, sent>>

---------------------------------------------------------------------------
(* Bounds of the model *)

\* frames the peers send in one run, over all connections
MaxMsgs == 2

\* repository operations that may complete with an error in one run
MaxDbErrors == 1

\* data events during which the repository handle throws synchronously
MaxThrows == 1

Conns == {"c1", "c2"}

\* the size a deployment would cap a connection's buffer at: larger than any
\* frame the senders below transmit
BufferCap == 128

---------------------------------------------------------------------------
(* Bytes and JavaScript string primitives *)

VT == "VT"

FS == "FS"

CR == "CR"

LF == "LF"

Digits == {"0", "1", "2", "3", "4", "5", "6", "7", "8", "9"}

\* characters String.prototype.trim removes (those the model's alphabet has)
WhiteSpace == {" ", VT, CR, LF}

Min(S) == CHOOSE x \in S : \A y \in S : x <= y

\* s.indexOf(pat, from): 0-based, -1 when absent; a negative from counts as 0
IndexOf(s, pat, from) ==
    LET start == IF from < 0 THEN 0 ELSE from
        hits == {i \in start..(Len(s) - Len(pat)) :
                    \A j \in 1..Len(pat) : s[i + j] = pat[j]}
    IN  IF hits = {} THEN -1 ELSE Min(hits)

\* s.substring(a, b) for 0 <= a <= b <= s.length
Substring(s, a, b) == SubSeq(s, a + 1, b)

\* s.substring(a)
SubstringFrom(s, a) == SubSeq(s, a + 1, Len(s))

\* s.includes(ch)
Includes(s, ch) == \E i \in 1..Len(s) : s[i] = ch

\* s.startsWith(p)
StartsWith(s, p) == Len(s) >= Len(p) /\ SubSeq(s, 1, Len(p)) = p

\* s.replace(/\n/g, '\r')
ReplaceNewlines(s) == [i \in 1..Len(s) |-> IF s[i] = LF THEN CR ELSE s[i]]

\* s.split(ch): the pieces between the occurrences of ch, empty ones kept
RECURSIVE Split(_, _)
Split(s, ch) ==
    LET i == IndexOf(s, <<ch>>, 0)
    IN  IF i = -1 THEN <<s>>
        ELSE <<SubSeq(s, 1, i)>> \o Split(SubSeq(s, i + 2, Len(s)), ch)

\* s.trim()
RECURSIVE Trim(_)
Trim(s) ==
    IF s = <<>> THEN s
    ELSE IF Head(s) \in WhiteSpace THEN Trim(Tail(s))
    ELSE IF s[Len(s)] \in WhiteSpace THEN Trim(SubSeq(s, 1, Len(s) - 1))
    ELSE s

\* the value of `undefined` where a string was looked for: no segment that
\* find() returns is empty, since each starts with its three-letter name
Undefined == <<>>

\* segments.find(s => s.startsWith(prefix))
Find(segments, prefix) ==
    LET hits == {i \in 1..Len(segments) : StartsWith(segments[i], prefix)}
    IN  IF hits = {} THEN Undefined ELSE segments[Min(hits)]

\* fields[i] || '': 0-based, '' when the index is past the end or the field empty
FieldOr(fields, i) == IF i + 1 <= Len(fields) THEN fields[i + 1] ELSE <<>>

---------------------------------------------------------------------------
(* HL7_CONFIG: positions in a segment split on '|' (index 0 is its name) *)

PATIENT_SSN_INDEX == 3

PATIENT_NAME_INDEX == 5

PATIENT_DOB_INDEX == 7

PATIENT_GENDER_INDEX == 8

PATIENT_ADDRESS_INDEX == 11

PROCEDURE_CODE_INDEX == 4

REASON_FOR_EXAM_INDEX == 13

\* position of the message type (MSH-9) in the MSH segment split on '|'
MSH_TYPE_INDEX == 8

\* the length an identifier must have to be written
SSN_LENGTH == 14

---------------------------------------------------------------------------
(* Parser, router and handlers *)

\* one character of String.prototype.toUpperCase
ToUpperChar(ch) ==
    CASE ch = "m" -> "M"
      [] ch = "f" -> "F"
      [] ch = "o" -> "O"
      [] ch = "u" -> "U"
      [] ch = "x" -> "X"
      [] OTHER -> ch

ToUpperCase(s) == [i \in 1..Len(s) |-> ToUpperChar(s[i])]

\* mapGender: null for an empty code, else male, female or other
mapGender(hl7Gender) ==
    IF hl7Gender = <<>> THEN "null"
    ELSE LET g == ToUpperCase(hl7Gender)
         IN  IF g = <<"M">> THEN "male"
             ELSE IF g = <<"F">> THEN "female"
             ELSE "other"

\* message.replace(/\n/g, '\r').split('\r').filter(s => s.trim().length > 0)
Segments(message) ==
    SelectSeq(Split(ReplaceNewlines(message), CR), LAMBDA s : Len(Trim(s)) > 0)

\* `${nameParts[1] || ''} ${nameParts[0] || ''}`.trim()
JoinName(nameParts) ==
    Trim(FieldOr(nameParts, 1) \o <<" ">> \o FieldOr(nameParts, 0))

\* the name written for PID-5: the joined components when the field has a
\* component separator, else the field as it is
FullName(patientName) ==
    IF Includes(patientName, "^") THEN JoinName(Split(patientName, "^"))
    ELSE patientName

\* if (!ssn || ssn.length !== 14) return;
SsnRejected(ssn) == ssn = <<>> \/ Len(ssn) # SSN_LENGTH

\* the db.run call of handleADTPatientManual, from the fields of the PID segment
PatientUpsert(pidFields) ==
    [kind          |-> "upsert",
     ssn           |-> FieldOr(pidFields, PATIENT_SSN_INDEX),
     mobile_number |-> "N/A",
     full_name     |-> FullName(FieldOr(pidFields, PATIENT_NAME_INDEX)),
     date_of_birth |-> FieldOr(pidFields, PATIENT_DOB_INDEX),
     gender        |-> mapGender(FieldOr(pidFields, PATIENT_GENDER_INDEX)),
     address       |-> FieldOr(pidFields, PATIENT_ADDRESS_INDEX)]

\* handleADTPatientManual once the PID segment is split: the identifier check,
\* then the db.run
AdmitFields(pidFields) ==
    IF SsnRejected(FieldOr(pidFields, PATIENT_SSN_INDEX)) THEN <<>>
    ELSE <<PatientUpsert(pidFields)>>

\* handleADTPatientManual once the PID segment is looked up
AdmitSegment(pidSegment) ==
    IF pidSegment = Undefined THEN <<>> ELSE AdmitFields(Split(pidSegment, "|"))

\* handleADTPatientManual: the repository calls it makes (none or one db.run)
handleADTPatientManual(segments) ==
    AdmitSegment(Find(segments, <<"P", "I", "D", "|">>))

\* procedureCode.split('^')[1] || procedureCode
DescOr(second, procedureCode) == IF second # <<>> THEN second ELSE procedureCode

ProcedureDesc(procedureCode) ==
    DescOr(FieldOr(Split(procedureCode, "^"), 1), procedureCode)

\* faulty variant of the reason: procedureDesc || reasonForExam
ReasonDescFirst(reasonForExam, procedureCode) ==
    IF ProcedureDesc(procedureCode) # <<>> THEN ProcedureDesc(procedureCode)
    ELSE reasonForExam

\* reasonForExam || procedureDesc
Reason(reasonForExam, procedureCode) ==
    IF reasonForExam # <<>> THEN reasonForExam ELSE ProcedureDesc(procedureCode)

\* handleORMOrderManual once PID and OBR are split: the identifier check, then
\* the db.get of the duplicate check, whose callback holds the reason
OrderFields(pidFields, obrFields) ==
    IF SsnRejected(FieldOr(pidFields, PATIENT_SSN_INDEX)) THEN <<>>
    ELSE << [kind   |-> "get",
             ssn    |-> FieldOr(pidFields, PATIENT_SSN_INDEX),
             reason |-> Reason(FieldOr(obrFields, REASON_FOR_EXAM_INDEX),
                               FieldOr(obrFields, PROCEDURE_CODE_INDEX))] >>

\* handleORMOrderManual once the PID and OBR segments are looked up
OrderSegments(pidSegment, obrSegment) ==
    IF pidSegment = Undefined \/ obrSegment = Undefined THEN <<>>
    ELSE OrderFields(Split(pidSegment, "|"), Split(obrSegment, "|"))

\* handleORMOrderManual: the repository calls it makes before it returns
handleORMOrderManual(segments) ==
    OrderSegments(Find(segments, <<"P", "I", "D", "|">>),
                  Find(segments, <<"O", "B", "R", "|">>))

\* type and triggerEvent, from the message-type field split on '^'
TypeParts(messageType, parts) ==
    IF Includes(messageType, "^")
    THEN [type |-> parts[1], triggerEvent |-> parts[2]]
    ELSE [type |-> messageType, triggerEvent |-> <<>>]

MessageType(messageType) == TypeParts(messageType, Split(messageType, "^"))

\* faulty variant of the dispatch: the type is matched by prefix, as in
\* messageType.startsWith('ADT')
RoutePrefix(type, triggerEvent) ==
    IF StartsWith(type, <<"A", "D", "T">>)
       /\ (triggerEvent = <<"A", "0", "1">> \/ triggerEvent = <<"A", "0", "8">>)
    THEN "ADT"
    ELSE IF StartsWith(type, <<"O", "R", "M">>) /\ triggerEvent = <<"O", "0", "1">>
    THEN "ORM"
    ELSE "none"

\* the dispatch of processHL7MessageManual: which handler a (type, trigger) gets
Route(type, triggerEvent) ==
    IF type = <<"A", "D", "T">>
       /\ (triggerEvent = <<"A", "0", "1">> \/ triggerEvent = <<"A", "0", "8">>)
    THEN "ADT"
    ELSE IF type = <<"O", "R", "M">> /\ triggerEvent = <<"O", "0", "1">>
    THEN "ORM"
    ELSE "none"

\* faulty variant: a message without MSH is reported as processed
NoMshAccepted == [success |-> TRUE, handler |-> "none", calls |-> <<>>]

\* what processHL7MessageManual returns when no segment starts with 'MSH|'
NoMshResult == [success |-> FALSE, handler |-> "none", calls |-> <<>>]

\* the branch taken for handler h: the handler runs, then return true
RunHandler(segments, h) ==
    [success |-> TRUE,
     handler |-> h,
     calls   |-> IF h = "ADT" THEN handleADTPatientManual(segments)
                 ELSE IF h = "ORM" THEN handleORMOrderManual(segments)
                 ELSE <<>>]

RouteType(segments, mt) == RunHandler(segments, Route(mt.type, mt.triggerEvent))

\* processHL7MessageManual once the MSH segment is looked up
RouteMsh(segments, mshSegment) ==
    IF mshSegment = Undefined THEN NoMshResult
    ELSE RouteType(segments,
                   MessageType(FieldOr(Split(mshSegment, "|"), MSH_TYPE_INDEX)))

RouteSegments(segments) == RouteMsh(segments, Find(segments, <<"M", "S", "H", "|">>))

\* processHL7MessageManual: its return value, the handler it ran and the
\* repository calls that handler made
processHL7MessageManual(message) == RouteSegments(Segments(message))

\* faulty variant of sendAck: the two codes are exchanged
sendAckInverted(success, messageId) ==
    [kind      |-> "ack",
     ackCode   |-> IF success THEN "AE" ELSE "AA",
     messageId |-> messageId]

\* sendAck(socket, success, messageId): the two varying parts of the ACK
sendAck(success, messageId) ==
    [kind      |-> "ack",
     ackCode   |-> IF success THEN "AA" ELSE "AE",
     messageId |-> messageId]

\* the default of sendAck's parameter messageId, which no call site passes
DefaultMessageId == <<"M", "S", "G">>

\* the bytes sendAck writes; T stands for the clock-derived timestamp and
\* N for the clock-derived ACK control ID
ackMessage(ack) ==
    <<VT, "M", "S", "H", "|", "^", "~", "\\", "&", "|", "R", "A", "D", "|",
      "F", "A", "C", "I", "L", "I", "T", "Y", "|", "S", "E", "N", "D", "E", "R", "|",
      "F", "A", "C", "I", "L", "I", "T", "Y", "|", "T", "|", "|", "A", "C", "K", "|",
      "A", "C", "K", "N", "|", "P", "|", "2", ".", "5", CR,
      "M", "S", "A", "|">>
    \o (IF ack.ackCode = "AA" THEN <<"A", "A">> ELSE <<"A", "E">>)
    \o <<"|">> \o ack.messageId \o <<FS, CR>>

---------------------------------------------------------------------------
(* The socket 'data' handler *)

\* faulty variant of the catch block: sendAck(socket, true)
CatchAckAccept == sendAck(TRUE, DefaultMessageId)

\* the ACK of the catch block: sendAck(socket, false)
CatchAck == sendAck(FALSE, DefaultMessageId)

\* the outcome of the try block given what processHL7Message does (r): when
\* the repository handle throws on its first call, the catch block's ACK and
\* no call made; else the ACK of the returned value
\* dbThrows: the repository handle throws when it is called in this data event
Outcome(r, dbThrows) ==
    IF dbThrows /\ r.calls # <<>>
    THEN [handler |-> r.handler, threw |-> TRUE, calls |-> <<>>, ack |-> CatchAck]
    ELSE [handler |-> r.handler, threw |-> FALSE, calls |-> r.calls,
          ack |-> sendAck(r.success, DefaultMessageId)]

\* try { success = processHL7Message(m, db); sendAck(socket, success) }
\* catch (err) { sendAck(socket, false) }
TryProcess(hl7Message, dbThrows) ==
    Outcome(processHL7MessageManual(hl7Message), dbThrows)

\* buffer.indexOf('\x0b')
VtIndex(buf) == IndexOf(buf, <<VT>>, 0)

\* faulty variant of the end-marker search: buffer.indexOf('\x1c', vtIndex)
FsIndexByteOnly(buf, vtIndex) == IndexOf(buf, <<FS>>, vtIndex)

\* buffer.indexOf('\x1c\r', vtIndex)
FsIndex(buf, vtIndex) == IndexOf(buf, <<FS, CR>>, vtIndex)

\* faulty variant of the loop condition: a start byte at index 0 does not count
FrameFoundPositive(vtIndex, fsIndex) == vtIndex > 0 /\ fsIndex > vtIndex

\* the loop condition: while (vtIndex >= 0 && fsIndex > vtIndex)
FrameFound(vtIndex, fsIndex) == vtIndex >= 0 /\ fsIndex > vtIndex

\* faulty variant of the extraction: the start byte is kept in the message
ExtractWithStart(buf, vtIndex, fsIndex) == Substring(buf, vtIndex, fsIndex)

\* const hl7Message = buffer.substring(vtIndex + 1, fsIndex)
ExtractMessage(buf, vtIndex, fsIndex) == Substring(buf, vtIndex + 1, fsIndex)

\* faulty variant of the buffer advance: buffer.substring(fsIndex + 1)
RemoveProcessedShort(buf, fsIndex) == SubstringFrom(buf, fsIndex + 1)

\* buffer = buffer.substring(fsIndex + 2)
RemoveProcessed(buf, fsIndex) == SubstringFrom(buf, fsIndex + 2)

\* one pass of the loop body seen from outside: the frame is taken up, then
\* its ACK is written; the repository calls made are kept, one entry per frame
Recorded(acc, hl7Message, r) ==
    [events |-> acc.events \o
                  <<[kind |-> "process", message |-> hl7Message,
                     handler |-> r.handler, threw |-> r.threw, calls |-> r.calls],
                    r.ack>>,
     calls  |-> Append(acc.calls, r.calls)]

\* the loop body on the extracted message
LoopBody(acc, hl7Message, dbThrows) ==
    Recorded(acc, hl7Message, TryProcess(hl7Message, dbThrows))

\* the while loop of the 'data' handler on the buffer buf: the buffer it
\* leaves, the frames taken up and ACKs written in order (events), and the
\* repository calls made (calls)
RECURSIVE DataLoop(_, _, _)

\* faulty variant of the loop: the rest of the buffer is handled before the
\* frame found first
LoopTestRestFirst(buf, vtIndex, fsIndex, acc, dbThrows) ==
    IF FrameFound(vtIndex, fsIndex)
    THEN LET rest == DataLoop(RemoveProcessed(buf, fsIndex), acc, dbThrows)
             done == LoopBody([events |-> rest.events, calls |-> rest.calls],
                              ExtractMessage(buf, vtIndex, fsIndex), dbThrows)
         IN  [buffer |-> rest.buffer, events |-> done.events, calls |-> done.calls]
    ELSE [buffer |-> buf, events |-> acc.events, calls |-> acc.calls]

\* faulty variant of the loop: an if in place of the while, one frame is
\* handled per data event
LoopTestOnce(buf, vtIndex, fsIndex, acc, dbThrows) ==
    IF FrameFound(vtIndex, fsIndex)
    THEN LET done == LoopBody(acc, ExtractMessage(buf, vtIndex, fsIndex), dbThrows)
         IN  [buffer |-> RemoveProcessed(buf, fsIndex),
              events |-> done.events, calls |-> done.calls]
    ELSE [buffer |-> buf, events |-> acc.events, calls |-> acc.calls]

LoopTest(buf, vtIndex, fsIndex, acc, dbThrows) ==
    IF FrameFound(vtIndex, fsIndex)
    THEN DataLoop(RemoveProcessed(buf, fsIndex),
                  LoopBody(acc, ExtractMessage(buf, vtIndex, fsIndex), dbThrows),
                  dbThrows)
    ELSE [buffer |-> buf, events |-> acc.events, calls |-> acc.calls]

LoopScan(buf, vtIndex, acc, dbThrows) ==
    LoopTest(buf, vtIndex, FsIndex(buf, vtIndex), acc, dbThrows)

DataLoop(buf, acc, dbThrows) == LoopScan(buf, VtIndex(buf), acc, dbThrows)

\* frames taken up so far in a log
Frames(l) == SelectSeq(l, LAMBDA e : e.kind = "process")

\* ACKs written so far in a log
Acks(l) == SelectSeq(l, LAMBDA e : e.kind = "ack")

\* data events so far in which the repository handle threw
Throws ==
    Cardinality(UNION {{<<c, i>> : i \in {j \in 1..Len(Frames(log[c])) :
                                            Frames(log[c])[j].threw}} : c \in Conns})

---------------------------------------------------------------------------
(* The repository: tables patients and patient_visits, and the operations *)
(* in flight between a db.run / db.get call and its callback              *)

\* the row INSERT OR REPLACE INTO patients (...) leaves for the call op: the
\* six columns of the statement, and every other column of the table at its
\* default (NULL, and 1 for is_active); the two timestamps are left out
PatientRow(op) ==
    [ssn           |-> op.ssn,
     mobile_number |-> op.mobile_number,
     full_name     |-> op.full_name,
     date_of_birth |-> op.date_of_birth,
     gender        |-> op.gender,
     address       |-> op.address,
     phone_number  |-> "NULL",
     medical_number |-> "NULL",
     emergency_contact_name     |-> "NULL",
     emergency_contact_phone    |-> "NULL",
     emergency_contact_relation |-> "NULL",
     created_by    |-> "NULL",
     is_active     |-> 1]

\* the row INSERT INTO patient_visits (...) adds; the uuid is fresh
VisitRow(op, visitId) ==
    [visit_id          |-> visitId,
     patient_ssn       |-> op.ssn,
     visit_status      |-> "open",
     primary_diagnosis |-> op.reason,
     visit_type        |-> "outpatient",
     department        |-> "radiology",
     created_by        |-> "hl7-system"]

\* SELECT visit_id FROM patient_visits WHERE patient_ssn = ? AND visit_status
\* IN ('open', 'in_progress') AND created_by = 'hl7-system': a row comes back
DuplicateRow(op) ==
    \E v \in visits : /\ v.patient_ssn = op.ssn
                      /\ v.visit_status \in {"open", "in_progress"}
                      /\ v.created_by = "hl7-system"

\* faulty variant of the test in the callback: if (err || row) return, a
\* failed duplicate check ends the handling of the order
SkipInsertOnError(err, row) == err \/ row

\* the callback of the duplicate check: if (!err && row) return; else db.run
SkipInsert(err, row) == ~err /\ row

\* the operations the calls of one data event put in flight: each keeps the
\* connection and the number of the frame that made it
Issued(c, first, calls) ==
    {[call |-> calls[i][1], conn |-> c, frame |-> first + i] :
        i \in {j \in 1..Len(calls) : calls[j] # <<>>}}

---------------------------------------------------------------------------
(* What the peers send *)

\* the MLLP wrapping a sender applies (test-hl7.js, sendHL7Message)
Wrap(message) == <<VT>> \o ReplaceNewlines(message) \o <<FS, CR>>

Ssn14 == <<"2", "6", "4", "0", "9", "3", "0", "1", "4", "0", "0", "2", "7", "4">>

Ssn13 == SubSeq(Ssn14, 1, 13)

Ssn15 == Ssn14 \o <<"5">>

\* fourteen characters, the last of them no digit
Ssn14X == Ssn13 \o <<"X">>

Msh(type, controlId) ==
    <<"M", "S", "H", "|", "^", "~", "\\", "&", "|", "S", "|", "F", "|", "R", "|",
      "F", "|", "T", "|", "|">> \o type \o <<"|">> \o controlId
    \o <<"|", "P", "|", "2", ".", "5">>

Pid(ssn, name, sex) ==
    <<"P", "I", "D", "|", "1", "|", "|">> \o ssn \o <<"|", "|">> \o name
    \o <<"|", "|", "1", "9", "|">> \o sex

Obr(code, reason) ==
    <<"O", "B", "R", "|", "1", "|", "O", "|", "|">> \o code
    \o <<"|", "|", "|", "|", "|", "|", "|", "|", "|">> \o reason

AdtA01 == <<"A", "D", "T", "^", "A", "0", "1">>

AdtA08 == <<"A", "D", "T", "^", "A", "0", "8">>

OrmO01 == <<"O", "R", "M", "^", "O", "0", "1">>

Name1 == <<"A", "H", "^", "M", "O">>

Code1 == <<"R", "1", "^", "C", "X">>

\* a patient registration and an order, as test-hl7.js sends them
Admit(type, controlId, ssn) ==
    Msh(type, controlId) \o <<LF>> \o Pid(ssn, Name1, <<"M">>)

Order(type, controlId, ssn, reason) ==
    Msh(type, controlId) \o <<LF>> \o Pid(ssn, Name1, <<"M">>)
    \o <<LF>> \o Obr(Code1, reason)

\* a PID segment with the date of birth and the address given
PidFull(ssn, name, dob, sex, address) ==
    <<"P", "I", "D", "|", "1", "|", "|">> \o ssn \o <<"|", "|">> \o name
    \o <<"|", "|">> \o dob \o <<"|">> \o sex \o <<"|", "|", "|">> \o address

\* a PID segment that ends after the name: PID-7, PID-8 and PID-11 are missing
PidShort(ssn, name) ==
    <<"P", "I", "D", "|", "1", "|", "|">> \o ssn \o <<"|", "|">> \o name

AdmitFull(type, controlId, ssn, name, dob, sex, address) ==
    Msh(type, controlId) \o <<LF>> \o PidFull(ssn, name, dob, sex, address)

\* an order whose OBR-4 is given
OrderFor(controlId, ssn, code, reason) ==
    Msh(OrmO01, controlId) \o <<LF>> \o Pid(ssn, Name1, <<"M">>)
    \o <<LF>> \o Obr(code, reason)

\* a message with no MSH segment
NoMsh == Pid(Ssn14, Name1, <<"M">>) \o <<CR>> \o Obr(Code1, <<>>)

CatOrders ==
    [payloads |-> {Admit(AdtA01, <<"M", "1">>, Ssn14),
                   Order(OrmO01, <<"M", "2">>, Ssn14, <<"C", "P">>),
                   Order(OrmO01, <<"M", "3">>, Ssn14, <<>>)},
     strays   |-> {},
     cuts     |-> {"whole", "last"},
     conns    |-> {"c1"},
     patients0 |-> {},
     visits0   |-> {}]

\* the same order from two senders
CatRace ==
    [payloads |-> {Order(OrmO01, <<"M", "2">>, Ssn14, <<"C", "P">>)},
     strays   |-> {},
     cuts     |-> {"whole"},
     conns    |-> {"c1", "c2"},
     patients0 |-> {},
     visits0   |-> {}]

CatErrors ==
    [payloads |-> {NoMsh,
                   Admit(AdtA08, <<"M", "4">>, Ssn14),
                   Order(<<"O", "R", "U", "^", "R", "0", "1">>, <<"M", "5">>, Ssn14, <<>>)},
     strays   |-> {<<"x">>, <<FS, CR>>, <<"x", VT>>},
     cuts     |-> {"whole", "mid", "last"},
     conns    |-> {"c1"},
     patients0 |-> {},
     visits0   |-> {}]

CatIdent ==
    [payloads |-> {Admit(AdtA01, <<"M", "6">>, <<>>),
                   Admit(AdtA01, <<"M", "7">>, Ssn13),
                   Admit(AdtA08, <<"M", "8">>, Ssn14X),
                   Order(OrmO01, <<"M", "9">>, Ssn15, <<>>),
                   Order(OrmO01, <<"M", "0">>, Ssn14X, <<>>)},
     strays   |-> {},
     cuts     |-> {"whole"},
     conns    |-> {"c1"},
     patients0 |-> {},
     visits0   |-> {}]

CatRoute ==
    [payloads |-> {Order(t, <<"M">>, Ssn14, <<>>) :
                     t \in {AdtA01, AdtA08, OrmO01,
                            <<"A", "D", "T", "^", "O", "0", "1">>,
                            <<"O", "R", "M", "^", "A", "0", "1">>,
                            <<"A", "D", "T", "^", "A", "0", "4">>,
                            <<"A", "D", "T", "X", "^", "A", "0", "1">>,
                            <<"A", "D", "T">>,
                            <<"A", "D", "T", "^", "A", "0", "1", "^", "A">>,
                            <<>>}},
     strays   |-> {},
     cuts     |-> {"whole"},
     conns    |-> {"c1"},
     patients0 |-> {},
     visits0   |-> {}]

\* another patient's identifier
Ssn14B == SubSeq(Ssn14, 1, 13) \o <<"5">>

\* patients the repository holds before the server starts: one with the
\* identifier the messages carry, one with another
Registered ==
    {[ssn |-> Ssn14, mobile_number |-> "0100", full_name |-> <<"O", "L", "D">>,
      date_of_birth |-> <<"1", "8">>, gender |-> "female", address |-> <<"X">>,
      phone_number |-> "0200", medical_number |-> "MRN-1",
      emergency_contact_name |-> "EC", emergency_contact_phone |-> "0300",
      emergency_contact_relation |-> "sister", created_by |-> "admin",
      is_active |-> 1],
     [ssn |-> Ssn14B, mobile_number |-> "0101", full_name |-> <<"B">>,
      date_of_birth |-> <<"1", "7">>, gender |-> "male", address |-> <<"Y">>,
      phone_number |-> "0201", medical_number |-> "MRN-2",
      emergency_contact_name |-> "ED", emergency_contact_phone |-> "0301",
      emergency_contact_relation |-> "father", created_by |-> "nurse",
      is_active |-> 0]}

\* two registrations of one patient that differ in every mapped field
UpsertPayloads ==
    {AdmitFull(AdtA01, <<"U", "1">>, Ssn14, Name1, <<"1", "9">>, <<"M">>, <<"A", "1">>),
     AdmitFull(AdtA08, <<"U", "2">>, Ssn14, <<"Z", "A", "^", "K", "I">>,
               <<"2", "0">>, <<"F">>, <<"A", "2">>)}

CatUpsert ==
    [payloads |-> UpsertPayloads,
     strays   |-> {},
     cuts     |-> {"whole"},
     conns    |-> {"c1"},
     patients0 |-> {},
     visits0   |-> {}]

CatUpsertOver ==
    [payloads |-> UpsertPayloads,
     strays   |-> {},
     cuts     |-> {"whole"},
     conns    |-> {"c1"},
     patients0 |-> Registered,
     visits0   |-> {}]

\* registrations that differ in PID-8
CatSex ==
    [payloads |-> {AdmitFull(AdtA01, <<"S">>, Ssn14, Name1, <<"1", "9">>, sex, <<>>) :
                     sex \in {<<"M">>, <<"F">>, <<"O">>, <<"U">>, <<"X">>, <<"m">>, <<>>}}
                  \cup {Msh(AdtA01, <<"S">>) \o <<LF>> \o PidShort(Ssn14, Name1)},
     strays   |-> {},
     cuts     |-> {"whole"},
     conns    |-> {"c1"},
     patients0 |-> {},
     visits0   |-> {}]

\* registrations that differ in PID-5
CatNames ==
    [payloads |-> {AdmitFull(AdtA01, <<"N">>, Ssn14, name, <<"1", "9">>, <<"M">>, <<>>) :
                     name \in {Name1, <<"A", "H">>, <<"A", "H", "^">>, <<"^", "M", "O">>,
                               <<"A", "H", "^", "M", "O", "^", "X">>, <<>>}},
     strays   |-> {},
     cuts     |-> {"whole"},
     conns    |-> {"c1"},
     patients0 |-> {},
     visits0   |-> {}]

\* orders that differ in OBR-4 and OBR-13
CatReasons ==
    [payloads |-> {OrderFor(<<"R">>, Ssn14, code, reason) :
                     code \in {Code1, <<"R", "1">>, <<"R", "1", "^">>, <<>>},
                     reason \in {<<>>, <<"C", "P">>}},
     strays   |-> {},
     cuts     |-> {"whole"},
     conns    |-> {"c1"},
     patients0 |-> {},
     visits0   |-> {}]

\* a visit of the patient_visits table
Visit(visitId, ssn, status, reason, createdBy) ==
    [visit_id          |-> visitId,
     patient_ssn       |-> ssn,
     visit_status      |-> status,
     primary_diagnosis |-> reason,
     visit_type        |-> "outpatient",
     department        |-> "radiology",
     created_by        |-> createdBy]

\* an order and a registration for a patient who has an open visit made by
\* hand for the same reason and a completed system-generated one; another
\* patient has a system-generated visit in progress
CatVisits ==
    [payloads |-> {Order(OrmO01, <<"V", "1">>, Ssn14, <<"C", "P">>),
                   Admit(AdtA01, <<"V", "2">>, Ssn14)},
     strays   |-> {},
     cuts     |-> {"whole"},
     conns    |-> {"c1"},
     patients0 |-> {},
     visits0   |-> {Visit(1, Ssn14, "open", <<"C", "P">>, "admin"),
                    Visit(2, Ssn14, "completed", <<"C", "P">>, "hl7-system"),
                    Visit(3, Ssn14B, "in_progress", <<"C", "P">>, "hl7-system")}]

\* an order for a patient who has an open system-generated visit for the same
\* reason
CatDuplicate ==
    [payloads |-> {Order(OrmO01, <<"D", "1">>, Ssn14, <<"C", "P">>)},
     strays   |-> {},
     cuts     |-> {"whole"},
     conns    |-> {"c1"},
     patients0 |-> {},
     visits0   |-> {Visit(1, Ssn14, "open", <<"C", "P">>, "hl7-system")}]

\* a sender that opens a frame and never ends it
CatFlood ==
    [payloads |-> {},
     strays   |-> {<<VT>> \o [i \in 1..BufferCap |-> "x"], <<"x">>},
     cuts     |-> {"whole"},
     conns    |-> {"c1"},
     patients0 |-> {},
     visits0   |-> {}]

Catalogs ==
    {CatOrders, CatRace, CatErrors, CatIdent, CatRoute,
     CatUpsert, CatUpsertOver, CatSex, CatNames, CatReasons, CatFlood,
     CatVisits, CatDuplicate}

\* where the network cuts a transmission of n bytes in two segments: not at
\* all, in the middle, or before its last byte (between 0x1C and 0x0D)
CutPoint(n, cut) ==
    IF cut = "whole" THEN n ELSE IF cut = "mid" THEN n \div 2 ELSE n - 1

\* the segments the bytes travel in when cut at k
Segmented(bytes, k) ==
    IF k = Len(bytes) THEN <<bytes>>
    ELSE <<SubSeq(bytes, 1, k), SubSeq(bytes, k + 1, Len(bytes))>>

\* one read of the socket: the first n of the segments in flight, coalesced
RECURSIVE Coalesced(_, _)
Coalesced(w, n) == IF n = 0 THEN <<>> ELSE Head(w) \o Coalesced(Tail(w), n - 1)

---------------------------------------------------------------------------
(* Actions *)

\* payloads of up to two characters, framing bytes and newlines among them
FrameBytes == {"a", LF, CR, FS, VT}

FramePayloads ==
    {<<>>} \cup {<<x>> : x \in FrameBytes} \cup {<<x, y>> : x, y \in FrameBytes}

\* a sender with two such payloads, the second of at most one character
CatFrames(a, b) ==
    [payloads |-> {a, b},
     strays   |-> {},
     cuts     |-> {"whole", "last"},
     conns    |-> {"c1"},
     patients0 |-> {},
     visits0   |-> {}]

FrameCatalogs ==
    {CatFrames(a, b) : a \in FramePayloads,
                       b \in {<<>>} \cup {<<x>> : x \in FrameBytes}}

\* the server started, for what the peers will send drawn from cats
Start(cats) ==
    /\ catalog \in cats
    /\ conn = [c \in Conns |-> "idle"]
    /\ wire = [c \in Conns |-> <<>>]
    /\ buffer = [c \in Conns |-> <<>>]
    /\ received = [c \in Conns |-> <<>>]
    /\ log = [c \in Conns |-> <<>>]
    /\ pending = {}
    /\ patients = catalog.patients0
    /\ visits = catalog.visits0
    /\ failed = {}
    /\ sent = 0

Init == Start(Catalogs)

\* net.createServer callback: a connection is accepted, its buffer is ''
\* (connections are numbered in the order they are accepted)
Connect(c) ==
    /\ conn[c] = "idle"
    /\ c \in catalog.conns
    /\ c = "c2" => conn["c1"] # "idle"
    /\ conn' = [conn EXCEPT ![c] = "open"]
    /\ buffer' = [buffer EXCEPT ![c] = <<>>]
    /\ UNCHANGED <<catalog, wire, received, log, pending, patients, visits, failed, sent>>

\* the peer sends one MLLP frame
Send(c, m, cut) ==
    /\ conn[c] = "open"
    /\ sent < MaxMsgs
    /\ wire' = [wire EXCEPT ![c] =
                   @ \o Segmented(Wrap(m), CutPoint(Len(Wrap(m)), cut))]
    /\ sent' = sent + 1
    /\ UNCHANGED <<catalog, conn, buffer, received, log, pending, patients, visits, failed>>

\* the peer sends bytes that are no frame
SendStray(c, bytes) ==
    /\ conn[c] = "open"
    /\ sent < MaxMsgs
    /\ wire' = [wire EXCEPT ![c] = Append(@, bytes)]
    /\ sent' = sent + 1
    /\ UNCHANGED <<catalog, conn, buffer, received, log, pending, patients, visits, failed>>

\* the state a data event leaves, given what its loop did (r)
DataDone(c, data, r) ==
    /\ buffer' = [buffer EXCEPT ![c] = r.buffer]
    /\ log' = [log EXCEPT ![c] =
                  @ \o <<[kind |-> "data", length |-> Len(data)]>> \o r.events]
    /\ pending' = pending \cup Issued(c, Len(Frames(log[c])), r.calls)
    /\ received' = [received EXCEPT ![c] = @ \o data]

\* faulty variant of the read: buffer = data.toString(), what the last read
\* left is lost
DataReadReplaces(c, data, dbThrows) ==
    DataDone(c, data,
             DataLoop(data, [events |-> <<>>, calls |-> <<>>], dbThrows))

\* buffer += data.toString(), then the loop
DataRead(c, data, dbThrows) ==
    DataDone(c, data,
             DataLoop(buffer[c] \o data, [events |-> <<>>, calls |-> <<>>], dbThrows))

\* socket.on('data'): the whole handler on one read of n segments
Data(c, n, dbThrows) ==
    /\ conn[c] = "open"
    /\ wire[c] # <<>>
    /\ n \in {1, Len(wire[c])}
    /\ dbThrows => Throws < MaxThrows
    /\ DataRead(c, Coalesced(wire[c], n), dbThrows)
    /\ wire' = [wire EXCEPT ![c] = SubSeq(@, n + 1, Len(@))]
    /\ UNCHANGED <<catalog, conn, patients, visits, failed, sent>>

\* faulty variant of the upsert: a plain INSERT that leaves the row of the
\* same identifier in place
PatientInserted(op, err) ==
    /\ op \in pending
    /\ op.call.kind = "upsert"
    /\ err => Cardinality(failed) < MaxDbErrors
    /\ pending' = pending \ {op}
    /\ patients' = IF err THEN patients ELSE patients \cup {PatientRow(op.call)}
    /\ failed' = IF err THEN failed \cup {<<op.conn, op.frame>>} ELSE failed
    /\ UNCHANGED <<catalog, conn, wire, buffer, received, log, visits, sent>>

\* faulty variant of the upsert: an UPDATE of the six columns where the row
\* exists, which keeps what the other columns held
PatientMerged(op, err) ==
    /\ op \in pending
    /\ op.call.kind = "upsert"
    /\ err => Cardinality(failed) < MaxDbErrors
    /\ pending' = pending \ {op}
    /\ patients' = IF err THEN patients
                   ELSE IF \E p \in patients : p.ssn = op.call.ssn
                   THEN {IF p.ssn # op.call.ssn THEN p
                         ELSE [p EXCEPT !.mobile_number = op.call.mobile_number,
                                        !.full_name = op.call.full_name,
                                        !.date_of_birth = op.call.date_of_birth,
                                        !.gender = op.call.gender,
                                        !.address = op.call.address] : p \in patients}
                   ELSE patients \cup {PatientRow(op.call)}
    /\ failed' = IF err THEN failed \cup {<<op.conn, op.frame>>} ELSE failed
    /\ UNCHANGED <<catalog, conn, wire, buffer, received, log, visits, sent>>

\* callback of db.run in handleADTPatientManual
PatientUpdated(op, err) ==
    /\ op \in pending
    /\ op.call.kind = "upsert"
    /\ err => Cardinality(failed) < MaxDbErrors
    /\ pending' = pending \ {op}
    /\ patients' = IF err THEN patients
                   ELSE {p \in patients : p.ssn # op.call.ssn} \cup {PatientRow(op.call)}
    /\ failed' = IF err THEN failed \cup {<<op.conn, op.frame>>} ELSE failed
    /\ UNCHANGED <<catalog, conn, wire, buffer, received, log, visits, sent>>

\* callback of db.get in handleORMOrderManual: returns, or calls db.run
DuplicateChecked(op, err) ==
    /\ op \in pending
    /\ op.call.kind = "get"
    /\ err => Cardinality(failed) < MaxDbErrors
    /\ pending' = (pending \ {op}) \cup
                    IF SkipInsert(err, DuplicateRow(op.call)) THEN {}
                    ELSE {[op EXCEPT !.call.kind = "insert"]}
    /\ failed' = IF err THEN failed \cup {<<op.conn, op.frame>>} ELSE failed
    /\ UNCHANGED <<catalog, conn, wire, buffer, received, log, patients, visits, sent>>

\* faulty variant of the insert: INSERT OR REPLACE keyed by the patient, which
\* removes the visits the patient already has
VisitReplaced(op, err) ==
    /\ op \in pending
    /\ op.call.kind = "insert"
    /\ err => Cardinality(failed) < MaxDbErrors
    /\ pending' = pending \ {op}
    /\ visits' = IF err THEN visits
                 ELSE {v \in visits : v.patient_ssn # op.call.ssn}
                      \cup {VisitRow(op.call, Cardinality(visits) + 1)}
    /\ failed' = IF err THEN failed \cup {<<op.conn, op.frame>>} ELSE failed
    /\ UNCHANGED <<catalog, conn, wire, buffer, received, log, patients, sent>>

\* callback of db.run in handleORMOrderManual
VisitCreated(op, err) ==
    /\ op \in pending
    /\ op.call.kind = "insert"
    /\ err => Cardinality(failed) < MaxDbErrors
    /\ pending' = pending \ {op}
    /\ visits' = IF err THEN visits
                 ELSE visits \cup {VisitRow(op.call, Cardinality(visits) + 1)}
    /\ failed' = IF err THEN failed \cup {<<op.conn, op.frame>>} ELSE failed
    /\ UNCHANGED <<catalog, conn, wire, buffer, received, log, patients, sent>>

\* socket.on('close'): the peer has disconnected and all it sent was read
Close(c) ==
    /\ conn[c] = "open"
    /\ wire[c] = <<>>
    /\ conn' = [conn EXCEPT ![c] = "closed"]
    /\ UNCHANGED <<catalog, wire, buffer, received, log, pending, patients, visits,
                   failed, sent>>

Next ==
    \/ \E c \in Conns : Connect(c)
    \/ \E c \in Conns, m \in catalog.payloads, cut \in catalog.cuts : Send(c, m, cut)
    \/ \E c \in Conns, bytes \in catalog.strays : SendStray(c, bytes)
    \/ \E c \in Conns, n \in 1..(2 * MaxMsgs), dbThrows \in BOOLEAN : Data(c, n, dbThrows)
    \/ \E op \in pending, err \in BOOLEAN : PatientUpdated(op, err)
    \/ \E op \in pending, err \in BOOLEAN : DuplicateChecked(op, err)
    \/ \E op \in pending, err \in BOOLEAN : VisitCreated(op, err)
    \/ \E c \in Conns : Close(c)

Spec == Init /\ [][Next]_vars

\* the server fed with short payloads of arbitrary bytes, and with the orders
\* and malformed transmissions of the catalogs above
FramingInit == Start(FrameCatalogs \cup {CatOrders, CatErrors})

FramingSpec == FramingInit /\ [][Next]_vars

\* the server's own steps are under the obligation of the event loop: a read
\* that is due is delivered, a database callback that is due is run; what the
\* peers do (connect, send, disconnect) is under none

\* a read, told by what it takes off the wire: every step of Data is one, and
\* one is possible exactly when a step of Data is
ReadDue ==
    \E c \in Conns, n \in 1..(2 * MaxMsgs) :
        /\ conn[c] = "open"
        /\ wire[c] # <<>>
        /\ n \in {1, Len(wire[c])}
        /\ wire' = [wire EXCEPT ![c] = SubSeq(@, n + 1, Len(@))]
        /\ UNCHANGED <<catalog, conn, patients, visits, failed, sent>>

CallbackDue ==
    \/ \E op \in pending, err \in BOOLEAN : PatientUpdated(op, err)
    \/ \E op \in pending, err \in BOOLEAN : DuplicateChecked(op, err)
    \/ \E op \in pending, err \in BOOLEAN : VisitCreated(op, err)

FairInit == Start({CatOrders, CatErrors})

FairSpec == FairInit /\ [][Next]_vars /\ WF_wire(ReadDue) /\ WF_vars(CallbackDue)

---------------------------------------------------------------------------
(* Reference notions the properties are stated with: MLLP framing of a    *)
(* whole byte stream and HL7 field access, read off the wire format       *)

\* the position of the k-th ch in s, or one past the end of s when s has
\* fewer than k of them; 0 for k = 0
NthAt(s, ch, k) ==
    IF k = 0 THEN 0
    ELSE LET at == {p \in 1..Len(s) :
                      /\ s[p] = ch
                      /\ Cardinality({q \in 1..(p - 1) : s[q] = ch}) = k - 1}
         IN  IF at = {} THEN Len(s) + 1 ELSE Min(at)

\* the n-th of the pieces of s that ch separates, counted from 1 (empty when
\* s has fewer pieces)
Piece(s, ch, n) == SubSeq(s, NthAt(s, ch, n - 1) + 1, NthAt(s, ch, n) - 1)

\* the positions from `from` on where s has a start byte, and those where it
\* has an end marker 0x1C 0x0D
StartsFrom(s, from) == {i \in from..Len(s) : s[i] = VT}

EndsFrom(s, from) == {j \in from..(Len(s) - 1) : s[j] = FS /\ s[j + 1] = CR}

\* the complete frames of a byte stream read from position `from`, outside any
\* frame: the first start byte opens a frame, the nearest end marker after it
\* closes it; bytes outside a frame count for nothing and a frame still open
\* at the end of the stream is not complete
RECURSIVE CompleteFrames(_, _)
CompleteFrames(s, from) ==
    IF StartsFrom(s, from) = {} THEN <<>>
    ELSE LET vt == Min(StartsFrom(s, from))
         IN  IF EndsFrom(s, vt + 1) = {} THEN <<>>
             ELSE LET fs == Min(EndsFrom(s, vt + 1))
                  IN  <<SubSeq(s, vt + 1, fs - 1)>> \o CompleteFrames(s, fs + 2)

FramesOf(stream) == CompleteFrames(stream, 1)

\* the stream ends inside a frame: a start byte opened it and no end marker
\* has come yet
RECURSIVE EndsInFrame(_, _)
EndsInFrame(s, from) ==
    IF StartsFrom(s, from) = {} THEN FALSE
    ELSE LET vt == Min(StartsFrom(s, from))
         IN  IF EndsFrom(s, vt + 1) = {} THEN TRUE
             ELSE EndsInFrame(s, Min(EndsFrom(s, vt + 1)) + 2)

\* positions of message m at which a segment with the given name and field
\* separator (such as MSH|) begins
SegStarts(m, name) ==
    {i \in 1..(Len(m) - 3) :
        /\ SubSeq(m, i, i + 3) = name
        /\ (i = 1 \/ m[i - 1] \in {CR, LF})}

\* the first such segment of a message that has one
SegOf(m, name) ==
    Piece(Piece(SubSeq(m, Min(SegStarts(m, name)), Len(m)), CR, 1), LF, 1)

MshStarts(m) == SegStarts(m, <<"M", "S", "H", "|">>)

MshOf(m) == SegOf(m, <<"M", "S", "H", "|">>)

PidStarts(m) == SegStarts(m, <<"P", "I", "D", "|">>)

ObrStarts(m) == SegStarts(m, <<"O", "B", "R", "|">>)

\* PID-3 (patient identifier) of a message, empty when it has no PID segment
Pid3Of(m) ==
    IF PidStarts(m) = {} THEN <<>>
    ELSE Piece(SegOf(m, <<"P", "I", "D", "|">>), "|", 4)

\* ^\d{14}$
IsFourteenDigits(x) == Len(x) = 14 /\ \A i \in 1..Len(x) : x[i] \in Digits

\* MSH-9 (message type) and MSH-10 (control ID): the 9th and 10th fields,
\* the field separator itself being MSH-1
MessageTypeOf(m) == Piece(MshOf(m), "|", 9)

ControlIdOf(m) == Piece(MshOf(m), "|", 10)

\* type and trigger event: the first two components of MSH-9
TypeOf(m) == Piece(MessageTypeOf(m), "^", 1)

TriggerOf(m) == Piece(MessageTypeOf(m), "^", 2)

\* the dispatch table: the handler a message with an MSH segment is for
HandlerFor(m) ==
    IF TypeOf(m) = <<"A", "D", "T">>
       /\ TriggerOf(m) \in {<<"A", "0", "1">>, <<"A", "0", "8">>}
    THEN "ADT"
    ELSE IF TypeOf(m) = <<"O", "R", "M">> /\ TriggerOf(m) = <<"O", "0", "1">>
    THEN "ORM"
    ELSE "none"

\* the i-th frame taken up on connection c, and the ACK written i-th
FrameAt(c, i) == Frames(log[c])[i]

AckAt(c, i) == Acks(log[c])[i]

FrameIds == UNION {{<<c, i>> : i \in 1..Len(Frames(log[c]))} : c \in Conns}

\* the log without its data-received entries
Handled(l) == SelectSeq(l, LAMBDA e : e.kind # "data")

\* data events so far on a connection
Reads(l) == Len(SelectSeq(l, LAMBDA e : e.kind = "data"))

\* the ACK code the acknowledgment rules give a frame: AE when the message has
\* no MSH segment or handling it raised an exception, else AA
CodeFor(f) == IF MshStarts(f.message) = {} \/ f.threw THEN "AE" ELSE "AA"

\* PID-k of a message with a PID segment
PidFieldOf(m, k) == Piece(SegOf(m, <<"P", "I", "D", "|">>), "|", k + 1)

\* OBR-k of a message with an OBR segment
ObrFieldOf(m, k) == Piece(SegOf(m, <<"O", "B", "R", "|">>), "|", k + 1)

\* the reason an order is for: OBR-13 when it is not empty, else the procedure
\* description, the second component of OBR-4 when OBR-4 has a component
\* separator and the whole field when it has none
DerivedReason(m) ==
    IF ObrFieldOf(m, 13) # <<>> THEN ObrFieldOf(m, 13)
    ELSE IF \E i \in 1..Len(ObrFieldOf(m, 4)) : ObrFieldOf(m, 4)[i] = "^"
    THEN Piece(ObrFieldOf(m, 4), "^", 2)
    ELSE ObrFieldOf(m, 4)

\* the display name of a PID-5 whose components hold no blanks: the family
\* name (first component), a blank, the given name (second component), trimmed
DisplayName(pid5) ==
    IF Piece(pid5, "^", 2) = <<>> THEN Piece(pid5, "^", 1)
    ELSE IF Piece(pid5, "^", 1) = <<>> THEN Piece(pid5, "^", 2)
    ELSE Piece(pid5, "^", 1) \o <<" ">> \o Piece(pid5, "^", 2)

\* the sex enumeration of a PID-8: M male, F female, anything else other
SexFor(pid8) ==
    IF pid8 = <<"M">> THEN "male" ELSE IF pid8 = <<"F">> THEN "female" ELSE "other"

\* the reason as the handler derives it: the second component of OBR-4 stands
\* for the procedure only when it is not empty
DerivedReasonOr(m) ==
    IF ObrFieldOf(m, 13) # <<>> THEN ObrFieldOf(m, 13)
    ELSE IF Piece(ObrFieldOf(m, 4), "^", 2) # <<>>
    THEN Piece(ObrFieldOf(m, 4), "^", 2)
    ELSE ObrFieldOf(m, 4)

\* the visits the Order handler inserted
Inserted == visits \ catalog.visits0

\* the frame made repository calls and every operation they started has
\* completed without error
Completed(id) ==
    /\ FrameAt(id[1], id[2]).calls # <<>>
    /\ id \notin failed
    /\ \A op \in pending : <<op.conn, op.frame>> # id

\* the messages a connection has taken up, in order
Messages(c) == [i \in 1..Len(Frames(log[c])) |-> FrameAt(c, i).message]

\* a payload with its newlines turned into carriage returns
Normalised(p) == [i \in 1..Len(p) |-> IF p[i] = LF THEN CR ELSE p[i]]

HasStartByte(p) == \E i \in 1..Len(p) : p[i] = VT

HasEndMarker(p) == \E i \in 1..(Len(p) - 1) : p[i] = FS /\ p[i + 1] = CR

\* the messages taken up so far, on any connection
AllMessages == {FrameAt(id[1], id[2]).message : id \in FrameIds}

---------------------------------------------------------------------------
(* Properties *)

\* C1: on every connection the number of ACKs written equals the number of
\* complete MLLP frames that have arrived on it (so a partial frame has no
\* ACK), and every ACK is itself MLLP-framed
C1_OneAckPerFrame ==
    \A c \in Conns :
        /\ Len(Acks(log[c])) = Len(FramesOf(received[c]))
        /\ \A i \in 1..Len(Acks(log[c])) :
              LET bytes == ackMessage(AckAt(c, i))
              IN  /\ Head(bytes) = VT
                  /\ SubSeq(bytes, Len(bytes) - 1, Len(bytes)) = <<FS, CR>>
                  /\ ~Includes(SubSeq(bytes, 2, Len(bytes) - 2), VT)

\* a frame was acknowledged and the bytes that came after it are a frame
\* still missing its end: it has no ACK
C1_Witness ==
    \E c \in Conns :
        /\ Len(Acks(log[c])) = 1
        /\ EndsInFrame(received[c], 1)
        /\ Len(received[c]) > Len(buffer[c])
        /\ Len(buffer[c]) > 1

\* C2: the MSA segment of every ACK carries the control ID (MSH-10) of the
\* inbound message it acknowledges
C2_AckCarriesControlId ==
    \A id \in FrameIds :
        LET f == FrameAt(id[1], id[2])
        IN  MshStarts(f.message) # {} =>
                AckAt(id[1], id[2]).messageId = ControlIdOf(f.message)

\* C3: on every connection frames are taken up in arrival order, each ACK is
\* written before the next frame is taken up, and the i-th ACK code is the
\* one the i-th frame received calls for
C3_AcksInFrameOrder ==
    \A c \in Conns :
        LET h == Handled(log[c])
        IN  /\ \A k \in 1..Len(h) :
                  h[k].kind = IF k % 2 = 1 THEN "process" ELSE "ack"
            /\ Len(h) % 2 = 0
            /\ [i \in 1..Len(Frames(log[c])) |-> FrameAt(c, i).message]
                   = FramesOf(received[c])
            /\ \A i \in 1..Len(Frames(log[c])) :
                  AckAt(c, i).ackCode = CodeFor(FrameAt(c, i))

\* two frames came in one data chunk and were acknowledged AE then AA
C3_Witness ==
    \E c \in Conns :
        /\ Reads(log[c]) = 1
        /\ Len(Frames(log[c])) = 2
        /\ log[c][3].kind = "ack" /\ log[c][3].ackCode = "AE"
        /\ log[c][5].kind = "ack" /\ log[c][5].ackCode = "AA"

\* C4: two ORM^O01 messages with the same valid PID-3 and the same derived
\* reason, and no matching visit beforehand, leave exactly one visit once all
\* repository operations have completed
C4_OneVisitForDuplicateOrders ==
    \A c \in Conns :
        (/\ sent = 2
         /\ Len(Frames(log[c])) = 2
         /\ FrameAt(c, 1).message = FrameAt(c, 2).message
         /\ FrameAt(c, 1).handler = "ORM"
         /\ FrameAt(c, 1).calls # <<>>
         /\ FrameAt(c, 2).calls # <<>>
         /\ IsFourteenDigits(Pid3Of(FrameAt(c, 1).message))
         /\ pending = {}
         /\ failed = {})
        => Cardinality({v \in visits :
                          /\ v.patient_ssn = FrameAt(c, 1).calls[1].ssn
                          /\ v.primary_diagnosis = FrameAt(c, 1).calls[1].reason}) = 1

\* C5: a message one of whose repository operations failed is acknowledged
\* with AE, never with AA
C5_RepositoryFailureYieldsAE ==
    \A id \in failed : AckAt(id[1], id[2]).ackCode = "AE"

\* C6: a message whose PID-3 is not exactly 14 digits makes the Patient-Admit
\* handler perform no patient write and the Order handler no visit insert: no
\* such write is issued or in flight, and no row carries that identifier
C6_NoWriteForBadIdentifier ==
    \A id \in FrameIds :
        LET f == FrameAt(id[1], id[2])
        IN  ~IsFourteenDigits(Pid3Of(f.message)) =>
                /\ \A i \in 1..Len(f.calls) : f.calls[i].kind # "upsert"
                /\ \A op \in pending :
                      <<op.conn, op.frame>> = id =>
                          op.call.kind \notin {"upsert", "insert"}
                /\ \A p \in patients : p.ssn # Pid3Of(f.message)
                /\ \A v \in visits : v.patient_ssn # Pid3Of(f.message)

\* C7: a frame whose message has no MSH segment is acknowledged with AE and
\* makes no repository operation, and every complete frame received on the
\* connection, later ones included, is taken up and acknowledged
C7_NoMshYieldsAE ==
    /\ \A id \in FrameIds :
          LET f == FrameAt(id[1], id[2])
          IN  MshStarts(f.message) = {} =>
                  /\ AckAt(id[1], id[2]).ackCode = "AE"
                  /\ f.calls = <<>>
                  /\ \A op \in pending : <<op.conn, op.frame>> # id
    /\ \A c \in Conns :
          /\ Len(Frames(log[c])) = Len(FramesOf(received[c]))
          /\ Len(Acks(log[c])) = Len(Frames(log[c]))

\* a message without MSH got AE, and a frame that arrived later on the same,
\* still open connection got AA
C7_Witness ==
    \E c \in Conns :
        /\ conn[c] = "open"
        /\ Reads(log[c]) >= 2
        /\ Len(Frames(log[c])) = 2
        /\ MshStarts(FrameAt(c, 1).message) = {}
        /\ AckAt(c, 1).ackCode = "AE"
        /\ MshStarts(FrameAt(c, 2).message) # {}
        /\ AckAt(c, 2).ackCode = "AA"

ValidAdmit(m) ==
    /\ MshStarts(m) # {}
    /\ MessageTypeOf(m) = <<"A", "D", "T", "^", "A", "0", "1">>
    /\ IsFourteenDigits(Pid3Of(m))

\* a valid ORM^O01 with PID and OBR segments
ValidOrder(m) ==
    /\ MshStarts(m) # {}
    /\ MessageTypeOf(m) = <<"O", "R", "M", "^", "O", "0", "1">>
    /\ IsFourteenDigits(Pid3Of(m))
    /\ ObrStarts(m) # {}

C10_ClosedDispatch ==
    \A id \in FrameIds :
        LET f == FrameAt(id[1], id[2])
        IN  MshStarts(f.message) # {} =>
              /\ f.handler = HandlerFor(f.message)
              /\ HandlerFor(f.message) = "none" =>
                    /\ f.calls = <<>>
                    /\ \A op \in pending : <<op.conn, op.frame>> # id
                    /\ AckAt(id[1], id[2]).ackCode = "AA"
              /\ (HandlerFor(f.message) = "ADT" /\ f.calls # <<>>) =>
                    f.calls[1].kind = "upsert"
              /\ (HandlerFor(f.message) = "ORM" /\ f.calls # <<>>) =>
                    f.calls[1].kind = "get"
              /\ (HandlerFor(f.message) # "none" /\ ~f.threw
                     /\ IsFourteenDigits(Pid3Of(f.message))
                     /\ ObrStarts(f.message) # {}) => f.calls # <<>>

\* a message whose type field has no trigger component ran no handler and got
\* AA, and an ADT^A08 on the same connection ran the Patient-Admit handler
C10_Witness ==
    \E c \in Conns :
        /\ Len(Frames(log[c])) = 2
        /\ \A i \in 1..2 : MshStarts(FrameAt(c, i).message) # {}
        /\ MessageTypeOf(FrameAt(c, 1).message) = <<"A", "D", "T">>
        /\ FrameAt(c, 1).handler = "none"
        /\ AckAt(c, 1).ackCode = "AA"
        /\ MessageTypeOf(FrameAt(c, 2).message) = <<"A", "D", "T", "^", "A", "0", "8">>
        /\ FrameAt(c, 2).handler = "ADT"
        /\ FrameAt(c, 2).calls # <<>>
        /\ FrameAt(c, 2).calls[1].kind = "upsert"

\* C11: when PID-3 of an ADT^A01/A08 or ORM^O01 message is not 14 digits, the
\* domain write is skipped (no patient is upserted, no visit is inserted) and
\* the message is still acknowledged with AA
C11_BadIdentifierSkippedWithAA ==
    \A id \in FrameIds :
        LET f == FrameAt(id[1], id[2])
        IN  (/\ MshStarts(f.message) # {}
             /\ HandlerFor(f.message) # "none"
             /\ ~IsFourteenDigits(Pid3Of(f.message))) =>
                /\ AckAt(id[1], id[2]).ackCode = "AA"
                /\ \A i \in 1..Len(f.calls) : f.calls[i].kind # "upsert"
                /\ \A op \in pending :
                      <<op.conn, op.frame>> = id => op.call.kind # "insert"
                /\ \A v \in visits : v.patient_ssn # Pid3Of(f.message)

C13_LastWriterWins ==
    \A c \in Conns :
        (/\ Len(Frames(log[c])) = 2
         /\ AllMessages = {FrameAt(c, 1).message, FrameAt(c, 2).message}
         /\ \A i \in 1..2 : /\ MshStarts(FrameAt(c, i).message) # {}
                            /\ HandlerFor(FrameAt(c, i).message) = "ADT"
                            /\ IsFourteenDigits(Pid3Of(FrameAt(c, i).message))
                            /\ Completed(<<c, i>>)
         /\ Pid3Of(FrameAt(c, 1).message) = Pid3Of(FrameAt(c, 2).message)
         /\ pending = {}) =>
            \A p \in patients :
                p.ssn = Pid3Of(FrameAt(c, 2).message) =>
                    /\ p.full_name = FullName(PidFieldOf(FrameAt(c, 2).message, 5))
                    /\ p.date_of_birth = PidFieldOf(FrameAt(c, 2).message, 7)
                    /\ p.gender = mapGender(PidFieldOf(FrameAt(c, 2).message, 8))
                    /\ p.address = PidFieldOf(FrameAt(c, 2).message, 11)

\* C14: the Order handler skips the insert only for a visit of the same
\* patient, open or in progress, system-generated and with the same reason: two
\* orders for one patient with different reasons, both fully processed with
\* no failure, leave a visit for each reason
C14_SkipOnlyOnSameReason ==
    \A c \in Conns :
        (/\ Len(Frames(log[c])) = 2
         /\ AllMessages = {FrameAt(c, 1).message, FrameAt(c, 2).message}
         /\ \A i \in 1..2 : /\ ValidOrder(FrameAt(c, i).message)
                            /\ FrameAt(c, i).calls # <<>>
         /\ Pid3Of(FrameAt(c, 1).message) = Pid3Of(FrameAt(c, 2).message)
         /\ DerivedReason(FrameAt(c, 1).message) # DerivedReason(FrameAt(c, 2).message)
         /\ pending = {}
         /\ failed = {}) =>
            \A i \in 1..2 :
                \E v \in visits :
                    /\ v.patient_ssn = Pid3Of(FrameAt(c, i).message)
                    /\ v.primary_diagnosis = DerivedReason(FrameAt(c, i).message)

\* C15 as stated: a payload with neither the start byte nor the end bytes,
\* wrapped and fed to the frame extraction, yields exactly one message equal
\* to the payload, and an empty buffer
C15_RoundTripIdentity ==
    \A c \in Conns : \A p \in catalog.payloads :
        (~HasStartByte(p) /\ ~HasEndMarker(p) /\ received[c] = Wrap(p)) =>
            /\ Messages(c) = <<p>>
            /\ buffer[c] = <<>>

\* C15, amended: a payload that has neither the start byte nor, once its
\* newlines are carriage returns, the end bytes, wrapped and fed to the frame
\* extraction, yields exactly one message, equal to the payload with its
\* newlines turned into carriage returns, and an empty buffer
C15_RoundTripNormalised ==
    \A c \in Conns : \A p \in catalog.payloads :
        (~HasStartByte(p) /\ ~HasEndMarker(Normalised(p)) /\ received[c] = Wrap(p)) =>
            /\ Messages(c) = <<Normalised(p)>>
            /\ buffer[c] = <<>>

\* a payload holding a newline made the round trip
C15_Witness ==
    \E c \in Conns : \E p \in catalog.payloads :
        /\ p = <<"a", LF>>
        /\ received[c] = Wrap(p)
        /\ Messages(c) = <<Normalised(p)>>
        /\ buffer[c] = <<>>

\* the first read of a connection brought n bytes, and it is the only read
OneRead(c, n) ==
    /\ Reads(log[c]) = 1
    /\ log[c][1].kind = "data"
    /\ log[c][1].length = n

\* C16 as stated: wrap(A) followed by wrap(B) in a single read yields exactly
\* the messages A then B, and an empty buffer
C16_TwoFramesIdentity ==
    \A c \in Conns : \A a, b \in catalog.payloads :
        (/\ received[c] = Wrap(a) \o Wrap(b)
         /\ OneRead(c, Len(Wrap(a)) + Len(Wrap(b)))) =>
            /\ Messages(c) = <<a, b>>
            /\ buffer[c] = <<>>

\* C16, amended: for A and B that, once their newlines are carriage returns,
\* hold no end bytes, wrap(A) followed by wrap(B) in a single read yields
\* exactly two messages, A then B with their newlines turned into carriage
\* returns, and an empty buffer
C16_TwoFramesNormalised ==
    \A c \in Conns : \A a, b \in catalog.payloads :
        (/\ ~HasEndMarker(Normalised(a))
         /\ ~HasEndMarker(Normalised(b))
         /\ received[c] = Wrap(a) \o Wrap(b)
         /\ OneRead(c, Len(Wrap(a)) + Len(Wrap(b)))) =>
            /\ Messages(c) = <<Normalised(a), Normalised(b)>>
            /\ Len(Acks(log[c])) = 2
            /\ buffer[c] = <<>>

\* two different payloads arrived wrapped in one read and came out in order
C16_Witness ==
    \E c \in Conns : \E a, b \in catalog.payloads :
        /\ a # b
        /\ a # <<>>
        /\ b # <<>>
        /\ ~HasEndMarker(Normalised(a))
        /\ ~HasEndMarker(Normalised(b))
        /\ received[c] = Wrap(a) \o Wrap(b)
        /\ OneRead(c, Len(Wrap(a)) + Len(Wrap(b)))
        /\ Messages(c) = <<Normalised(a), Normalised(b)>>
        /\ buffer[c] = <<>>

\* the first of two reads of a connection brought n bytes
FirstOfTwoReads(c, n) ==
    /\ Reads(log[c]) = 2
    /\ log[c][1].kind = "data"
    /\ log[c][1].length = n

\* a sequence without its last element
Most(w) == SubSeq(w, 1, Len(w) - 1)

\* C17 as stated: wrap(A) without its last byte yields no frame, no ACK and a
\* buffer equal to the partial input; the missing byte fed afterwards yields
\* exactly the message A and an empty buffer
C17_PartialIdentity ==
    \A c \in Conns : \A a \in catalog.payloads :
        /\ received[c] = Most(Wrap(a)) =>
              /\ Messages(c) = <<>>
              /\ Acks(log[c]) = <<>>
              /\ buffer[c] = Most(Wrap(a))
        /\ (received[c] = Wrap(a) /\ FirstOfTwoReads(c, Len(Wrap(a)) - 1)) =>
              /\ Messages(c) = <<a>>
              /\ buffer[c] = <<>>

\* C17, amended: for A that, once its newlines are carriage returns, holds no
\* end bytes, wrap(A) without its last byte yields no frame, no ACK and a
\* buffer equal to the partial input; the missing byte fed afterwards yields
\* exactly one message, A with its newlines turned into carriage returns, one
\* ACK and an empty buffer
C17_PartialNormalised ==
    \A c \in Conns : \A a \in catalog.payloads :
        ~HasEndMarker(Normalised(a)) =>
            /\ received[c] = Most(Wrap(a)) =>
                  /\ Messages(c) = <<>>
                  /\ Acks(log[c]) = <<>>
                  /\ buffer[c] = Most(Wrap(a))
            /\ (received[c] = Wrap(a) /\ FirstOfTwoReads(c, Len(Wrap(a)) - 1)) =>
                  /\ Messages(c) = <<Normalised(a)>>
                  /\ Len(Acks(log[c])) = 1
                  /\ buffer[c] = <<>>

\* a wrapped payload holding a newline arrived without its last byte: nothing
\* was taken up or acknowledged on that read, and the read of the missing byte
\* gave the one message and an empty buffer
C17_Witness ==
    \E c \in Conns : \E a \in catalog.payloads :
        /\ a = <<"a", LF>>
        /\ received[c] = Wrap(a)
        /\ FirstOfTwoReads(c, Len(Wrap(a)) - 1)
        /\ log[c][2].kind = "data"
        /\ log[c][2].length = 1
        /\ Messages(c) = <<Normalised(a)>>
        /\ Len(Acks(log[c])) = 1
        /\ buffer[c] = <<>>

\* C18: the name the Patient-Admit handler stores is the family name of
\* PID-5, a blank and the given name, trimmed: AHMED^MOHAMED gives AHMED MOHAMED
C18_FamilyNameFirst ==
    \A id \in FrameIds :
        LET f == FrameAt(id[1], id[2])
        IN  (/\ MshStarts(f.message) # {}
             /\ HandlerFor(f.message) = "ADT"
             /\ f.calls # <<>>) =>
                f.calls[1].full_name = DisplayName(PidFieldOf(f.message, 5))

\* C19: the sex the Patient-Admit handler stores is one of male, female and
\* other: male for PID-8 M, female for F, other for every other value, an
\* empty or missing PID-8 included
C19_SexEnumeration ==
    \A id \in FrameIds :
        LET f == FrameAt(id[1], id[2])
        IN  (/\ MshStarts(f.message) # {}
             /\ HandlerFor(f.message) = "ADT"
             /\ f.calls # <<>>) =>
                /\ f.calls[1].gender \in {"male", "female", "other"}
                /\ f.calls[1].gender = SexFor(PidFieldOf(f.message, 8))

\* the fields every visit of the Order handler has
SystemVisit(v) ==
    /\ v.visit_status = "open"
    /\ v.visit_type = "outpatient"
    /\ v.department = "radiology"
    /\ v.created_by = "hl7-system"

\* the frames whose Order handler asked the repository for a visit of patient
\* ssn with this reason
OrdersFor(ssn, reason) ==
    {id \in FrameIds :
        LET f == FrameAt(id[1], id[2])
        IN  /\ f.handler = "ORM"
            /\ f.calls # <<>>
            /\ f.calls[1].ssn = ssn
            /\ f.calls[1].reason = reason}

\* C20 as stated: every visit the Order handler inserts is open, outpatient,
\* radiology and system-generated, for the patient of PID-3, with the reason
\* OBR-13 when that is not empty and else the procedure description: the
\* second component of OBR-4 when OBR-4 has a separator, else the whole field
C20_VisitFieldsStated ==
    /\ \A v \in Inserted :
          SystemVisit(v) /\ OrdersFor(v.patient_ssn, v.primary_diagnosis) # {}
    /\ \A id \in FrameIds :
          LET f == FrameAt(id[1], id[2])
          IN  (f.handler = "ORM" /\ f.calls # <<>>) =>
                  /\ f.calls[1].ssn = Pid3Of(f.message)
                  /\ f.calls[1].reason = DerivedReason(f.message)

\* C20, amended: as stated, with the procedure description being the second
\* component of OBR-4 when that component is not empty, else the whole field
C20_VisitFields ==
    /\ \A v \in Inserted :
          SystemVisit(v) /\ OrdersFor(v.patient_ssn, v.primary_diagnosis) # {}
    /\ \A id \in FrameIds :
          LET f == FrameAt(id[1], id[2])
          IN  (f.handler = "ORM" /\ f.calls # <<>>) =>
                  /\ f.calls[1].ssn = Pid3Of(f.message)
                  /\ f.calls[1].reason = DerivedReasonOr(f.message)

\* an order with an empty OBR-13 and OBR-4 'R1^' got its visit, with the
\* whole of OBR-4 as the reason
C20_Witness ==
    \E v \in Inserted : \E id \in FrameIds :
        /\ ObrFieldOf(FrameAt(id[1], id[2]).message, 13) = <<>>
        /\ ObrFieldOf(FrameAt(id[1], id[2]).message, 4) = <<"R", "1", "^">>
        /\ Completed(id)
        /\ v.patient_ssn = Pid3Of(FrameAt(id[1], id[2]).message)
        /\ v.primary_diagnosis = <<"R", "1", "^">>
        /\ SystemVisit(v)

\* C21: the repository operations of a frame have completed before its ACK is
\* written and before the next frame is taken up: no operation of a frame
\* whose ACK is out is still pending
C21_OperationsDoneBeforeAck ==
    \A id \in FrameIds :
        Len(Acks(log[id[1]])) >= id[2] =>
            \A op \in pending : <<op.conn, op.frame>> # id

\* C22: at most one system-generated visit that is open or in progress per
\* patient identifier and reason
C22_OneOpenVisitPerReason ==
    \A v, w \in visits :
        (/\ v.created_by = "hl7-system"
         /\ w.created_by = "hl7-system"
         /\ v.visit_status \in {"open", "in_progress"}
         /\ w.visit_status \in {"open", "in_progress"}
         /\ v.patient_ssn = w.patient_ssn
         /\ v.primary_diagnosis = w.primary_diagnosis) => v = w

\* C23: the buffer of an open connection never holds more bytes than the cap:
\* a connection whose unterminated frame outgrows the cap is dropped
C23_BufferWithinCap ==
    \A c \in Conns : conn[c] = "open" => Len(buffer[c]) <= BufferCap

\* C24: a connection that is open and has delivered no complete frame is
\* eventually closed, or eventually delivers one
C24_IdleConnectionClosed ==
    \A c \in Conns :
        (conn[c] = "open" /\ Len(Frames(log[c])) = 0)
            ~> (conn[c] = "closed" \/ Len(Frames(log[c])) > 0)

\* C25: bytes received before the first start byte are discarded: no message
\* holds them, and once the data event that received them is over the buffer
\* does not hold them, so that a buffer that is not empty begins with the
\* start byte
C25_StrayBytesDiscarded ==
    \A c \in Conns :
        /\ Messages(c) = FramesOf(received[c])
        /\ (Len(Frames(log[c])) = 0 /\ buffer[c] # <<>>) => Head(buffer[c]) = VT

\* C26: no step changes or removes a visit; the visit store changes only by
\* the insert the Order handler's duplicate check led to, which adds one
\* visit, and a step that completes a patient upsert leaves it as it is
C26_VisitsOnlyInserted ==
    [][/\ visits \subseteq visits'
       /\ visits' # visits =>
             /\ Cardinality(visits') = Cardinality(visits) + 1
             /\ \E op \in pending \ pending' :
                   /\ op.call.kind = "insert"
                   /\ FrameAt(op.conn, op.frame).handler = "ORM"
       /\ (\E op \in pending \ pending' : op.call.kind = "upsert") =>
             visits' = visits]_vars

\* the patient had visits beforehand, an order added one and a registration
\* was stored, and the earlier visits are all there
C26_Witness ==
    /\ catalog.visits0 # {}
    /\ catalog.visits0 \subseteq visits
    /\ Inserted # {}
    /\ \E id \in FrameIds :
          FrameAt(id[1], id[2]).handler = "ADT" /\ Completed(id)
    /\ \E v \in catalog.visits0 : \E w \in Inserted : v.patient_ssn = w.patient_ssn

\* what the data handler does with a connection's whole byte stream when it
\* comes in one chunk to the empty buffer (no exception raised)
Whole(c) == DataLoop(received[c], [events |-> <<>>, calls |-> <<>>], FALSE)

\* the connection stands as the single delivery w leaves it: the same
\* messages, the same ACK code for every frame whose handling raised no
\* exception, the same buffer
SameAsWhole(c, w) ==
    /\ [i \in 1..Len(Frames(w.events)) |-> Frames(w.events)[i].message] = Messages(c)
    /\ Len(Acks(w.events)) = Len(Acks(log[c]))
    /\ \A i \in 1..Len(Acks(log[c])) :
          ~FrameAt(c, i).threw => Acks(w.events)[i].ackCode = AckAt(c, i).ackCode
    /\ w.buffer = buffer[c]

C28_NoCompleteFrameLeft ==
    \A c \in Conns :
        \A i \in 1..Len(buffer[c]) :
            buffer[c][i] = VT =>
                \A j \in (i + 1)..(Len(buffer[c]) - 1) :
                    ~(buffer[c][j] = FS /\ buffer[c][j + 1] = CR)

\* one read brought two frames and the loop went round twice: both were
\* taken up, and what is left holds no start byte
C28_Witness ==
    \E c \in Conns :
        /\ Reads(log[c]) = 1
        /\ Len(Frames(log[c])) = 2
        /\ \A i \in 1..Len(buffer[c]) : buffer[c][i] # VT

\* C29: a duplicate check that fails does not end the handling of the order:
\* the step in which its callback runs with an error puts the insert of the
\* visit in flight, the one that is made when no visit was found, whether or
\* not the patient has an open visit
C29_FailedCheckStillInserts ==
    [][\A op \in pending :
           (/\ op.call.kind = "get"
            /\ op \notin pending'
            /\ <<op.conn, op.frame>> \in failed' \ failed)
           => /\ [op EXCEPT !.call.kind = "insert"] \in pending'
              /\ visits' = visits]_vars

\* the patient had an open visit made by the system, the duplicate check of
\* an order for the same patient failed, and the order's visit is there too
C29_Witness ==
    /\ catalog = CatDuplicate
    /\ \E old \in catalog.visits0, new \in visits \ catalog.visits0 :
           /\ old.visit_status = "open"
           /\ old.created_by = "hl7-system"
           /\ new.patient_ssn = old.patient_ssn
           /\ new.primary_diagnosis = old.primary_diagnosis
           /\ new.visit_status = "open"
           /\ new.created_by = "hl7-system"
    /\ Cardinality(failed) = 1

\* the frame is a registration the Patient handler took an upsert from
Upserting(id) ==
    LET m == FrameAt(id[1], id[2]).message
    IN  /\ MshStarts(m) # {}
        /\ HandlerFor(m) = "ADT"
        /\ ~SsnRejected(Pid3Of(m))

\* C30: the upsert replaces the whole record: once the upsert of a
\* registration has completed, the record with its identifier has 'N/A' as
\* mobile number and no phone number, medical number, emergency contact or
\* creator, whatever the record with that identifier held beforehand, and the
\* records with identifiers no registration carried are as they were
C30_UpsertReplacesWholeRecord ==
    /\ \A id \in FrameIds :
           (Upserting(id) /\ Completed(id)) =>
               \A p \in patients :
                   p.ssn = Pid3Of(FrameAt(id[1], id[2]).message) =>
                       /\ p.mobile_number = "N/A"
                       /\ p.phone_number = "NULL"
                       /\ p.medical_number = "NULL"
                       /\ p.emergency_contact_name = "NULL"
                       /\ p.emergency_contact_phone = "NULL"
                       /\ p.emergency_contact_relation = "NULL"
                       /\ p.created_by = "NULL"
    /\ \A p \in catalog.patients0 :
           (\A id \in FrameIds :
                Upserting(id) => Pid3Of(FrameAt(id[1], id[2]).message) # p.ssn)
               => p \in patients

\* a registration for an identifier that had a record with a phone number, a
\* medical number, an emergency contact and a creator has been upserted, and
\* the repository holds a record with another identifier
C30_Witness ==
    \E id \in FrameIds :
        /\ Upserting(id)
        /\ Completed(id)
        /\ \E old \in catalog.patients0 :
               /\ old.ssn = Pid3Of(FrameAt(id[1], id[2]).message)
               /\ old.phone_number # "NULL"
               /\ old.medical_number # "NULL"
               /\ old.emergency_contact_name # "NULL"
               /\ old.created_by # "NULL"
               /\ old.mobile_number # "N/A"
        /\ \E other \in patients : other.ssn # Pid3Of(FrameAt(id[1], id[2]).message)

====
